---- MODULE Spec2Model ----
(***************************************************************************)
(* Model of the earthworm Reddit adapters: the retry loop of the public    *)
(* scraper (RedditCommunity._make_request), the retry decorator and the    *)
(* rate limiter of the official client (handle_rate_limit,                 *)
(* RedditOfficial._enforce_rate_limit and its configuration operations),   *)
(* and the job threads of the web wrapper (WebEarthwormApp).               *)
(*                                                                         *)
(* Times are integers in milliseconds; jitter factors are in permille.     *)
(***************************************************************************)
EXTENDS Integers, Sequences, FiniteSets, TLC

VARIABLES
    \* ---- RedditCommunity (public scraper) ----
    comm_max_retries,     \* self.max_retries
    comm_request_delay,   \* self.request_delay (ms)
    request_count,        \* self.request_count
    session_headers,      \* profile of self.session.headers
    mr_pc,                \* position of the current _make_request call
    mr_op,                \* public operation that issued the call
    attempt,              \* loop variable of _make_request
    responses,            \* answers to the primary GETs of the current call
    alt_responses,        \* answers to the alternate GETs of the current call
    sleeps,               \* time.sleep calls of the current call, in order
    mr_outcome,           \* how _make_request ended
    op_result,            \* what the public operation handed to its caller
    \* ---- RedditOfficial (authenticated client) ----
    reddit,               \* self.reddit: "none", "read_only" or "user"
    auth_outcome,         \* how the last authenticate call ended
    max_retries,          \* self.max_retries
    base_delay,           \* self.base_delay (ms)
    request_delay,        \* self.request_delay (ms)
    use_random_delays,    \* self.use_random_delays
    min_jitter,           \* self.min_jitter (permille)
    max_jitter,           \* self.max_jitter (permille)
    burst_protection,     \* self.burst_protection
    max_requests_per_minute, \* self.max_requests_per_minute
    request_times,        \* self._request_times
    last_request_time,    \* self._last_request_time (ms)
    now,                  \* time.time() (ms)
    passed,               \* times at which _enforce_rate_limit let a request go
    erl,                  \* what the last _enforce_rate_limit call saw and did
    config_log,           \* last configuration operation and the values before stealth
    wr_pc,                \* position of the current decorated call
    wr_attempt,           \* loop variable of handle_rate_limit's wrapper
    outcomes,             \* what the vendor call did in each attempt
    wr_sleeps,            \* backoff sleeps of the wrapper in the current call
    wr_outcome,           \* how the decorated call ended
    \* ---- WebEarthwormApp (web wrapper) ----
    current_platform,     \* self.current_platform
    job_counter,          \* self.job_counter
    active_jobs,          \* the module's active_jobs: job id -> status
    handler,              \* position of each request inside start_collection_job
    thread,               \* position of each job thread
    \* ---- data functions of the adapters (no state of their own) ----
    np_op,                \* the function or operation applied last
    limit_arg,            \* the `limit` argument of the operation
    limit_param,          \* the 'limit' query parameter it put into the request
    text_in,              \* argument of _clean_text_content
    text_out,             \* its result
    text_again,           \* its result when applied to that result
    rec_in,               \* raw record given to an _extract_clean_* function
    rec_out,              \* its result
    rec_again,            \* its result when applied to that result
    listing,              \* comment listing delivered to get_comments
    comments,             \* list get_comments returned
    posts_data,           \* what the post fetch of a batch operation returned
    results               \* list the batch operation returned

comm_vars == <<comm_max_retries, comm_request_delay, request_count,
               session_headers, mr_pc, mr_op, attempt, responses,
               alt_responses, sleeps, mr_outcome, op_result>>

config_vars == <<max_retries, base_delay, request_delay, use_random_delays,
                 min_jitter, max_jitter, burst_protection,
                 max_requests_per_minute>>
limiter_vars == <<request_times, last_request_time, now, passed, erl>>
wrapper_vars == <<wr_pc, wr_attempt, outcomes, wr_sleeps, wr_outcome>>
off_vars == <<reddit, auth_outcome, config_vars, limiter_vars, config_log, wrapper_vars>>
web_vars == <<current_platform, job_counter, active_jobs, handler, thread>>
norm_vars == <<np_op, limit_arg, limit_param, text_in, text_out, text_again,
               rec_in, rec_out, rec_again, listing, comments, posts_data,
               results>>

vars == <<comm_vars, off_vars, web_vars, norm_vars>>

-----------------------------------------------------------------------------
(* Bounds of the model *)

\* largest value assigned to RedditCommunity.max_retries
MaxRetriesCap == 3
\* primary GETs one scraper instance may issue over its life
MaxRequests == 4
\* configuration operations are applied while the client has issued (let
\* pass) at most this many requests
ConfigUntil == 0

(* Program constants *)

CommDefaultMaxRetries == 3
CommDefaultRequestDelay == 1000
CommMinRequestDelay == 100
DefaultRetryAfter == 60
BackoffFactor == 2
\* a Retry-After header value in seconds, as sent by the server
RetryAfterSeconds == 7

-----------------------------------------------------------------------------
(* The server as seen by session.get *)

\* bodies of a 2xx answer: a dict with 'data', a non-empty list, a non-empty
\* dict with neither 'data' nor 'html_content', an empty JSON value, or text
\* that is not JSON
Bodies == {"listing", "array", "dict_other", "empty", "not_json"}

RetryAfterHeaders == {"absent", "seconds", "http_date"}

Responses ==
    [kind : {"http"}, status : {200}, body : Bodies, retry_after : {"absent"}]
    \cup [kind : {"http"}, status : {400, 403, 404, 500},
          body : {"none"}, retry_after : {"absent"}]
    \cup [kind : {"http"}, status : {429}, body : {"none"},
          retry_after : RetryAfterHeaders]
    \cup [kind : {"exception"}, status : {0}, body : {"none"},
          retry_after : {"absent"}]

TransportError ==
    [kind |-> "exception", status |-> 0, body |-> "none", retry_after |-> "absent"]

\* answers to the alternate GET: _try_alternate_request tells apart only
\* status 200 (by body), any other status, and an exception
AltResponses ==
    {r \in Responses : r.kind = "exception" \/ r.status \in {200, 403}}

\* random.uniform(0, 1) of the 5xx / exception backoff, in ms
UniformZeroOne == {0, 1000}

Pow(b, e) == IF e = 0 THEN 1 ELSE IF e = 1 THEN b ELSE IF e = 2 THEN b * b
             ELSE IF e = 3 THEN b * b * b ELSE b * b * b * b

Pending == [kind |-> "pending", value |-> "-"]
Return(v) == [kind |-> "return", value |-> v]
Raise(e) == [kind |-> "raise", value |-> e]

PublicOps == {"get_subreddit_posts", "get_user_info", "get_comments"}

-----------------------------------------------------------------------------
(* RedditCommunity *)

\* _validate_reddit_response on a parsed JSON value
ValidateRedditResponse(body) ==
    body \in {"listing", "array"}

\* response.json() followed by validation; a body that is not JSON is
\* returned wrapped as {'html_content': ...}
ParseBody(body) ==
    IF body = "not_json" THEN Return("html_content")
    ELSE IF ValidateRedditResponse(body) THEN Return(body)
    ELSE Return("None")

HasNextIteration_Extra == attempt + 1 < comm_max_retries + 2

\* range(self.max_retries + 1): is there an iteration after this one
HasNextIteration == attempt + 1 < comm_max_retries + 1

RetryBudgetLeft_OffByOne == attempt <= comm_max_retries

\* `if attempt < self.max_retries` of the 5xx branch and the except clause
RetryBudgetLeft == attempt < comm_max_retries

\* wait_time = self.backoff_factor ** attempt + random.uniform(0, 1)
BackoffWait(u) == Pow(BackoffFactor, attempt) * 1000 + u

\* what the public operation makes of _make_request's outcome
OpResult(op, out) ==
    IF out.kind = "raise"
    THEN IF out.value = "APIError" THEN Return("None") ELSE out
    ELSE IF op = "get_user_info"
         THEN IF out.value = "listing" THEN Return("data_field")
              ELSE Return("None")
         ELSE IF op = "get_comments"
         THEN IF out.value = "array" THEN Return("comment_list")
              ELSE Return("empty_list")
         ELSE out

\* the call ends with outcome `out`
Finish(out) ==
    /\ mr_pc' = "done"
    /\ mr_outcome' = out
    /\ op_result' = OpResult(mr_op, out)
    /\ attempt' = attempt

\* `continue`, or the end of an iteration whose except clause slept:
\* the next iteration, or `return None` after the loop
Continue ==
    IF HasNextIteration
    THEN /\ attempt' = attempt + 1
         /\ UNCHANGED <<mr_pc, mr_outcome, op_result>>
    ELSE Finish(Return("None"))

\* top of one iteration: rotate the user agent, sleep request_delay,
\* count the request and receive the answer r
Issue(r) ==
    /\ mr_pc = "attempting"
    /\ request_count' = request_count + 1
    /\ responses' = Append(responses, r)

PreSleep == [kind |-> "request_delay", ms |-> comm_request_delay]

\* the locals of a finished call are gone once its caller moves on
ForgetCall ==
    /\ mr_pc' = "idle"
    /\ mr_op' = "-"
    /\ attempt' = 0
    /\ responses' = <<>>
    /\ alt_responses' = <<>>
    /\ sleeps' = <<>>
    /\ mr_outcome' = Pending
    /\ op_result' = Pending

\* assignment to the public attribute max_retries
SetMaxRetries(n) ==
    /\ mr_pc \in {"idle", "done"}
    /\ request_count <= ConfigUntil
    /\ comm_max_retries' = n
    /\ ForgetCall
    /\ UNCHANGED <<comm_request_delay, request_count, session_headers>>
    /\ UNCHANGED <<off_vars, web_vars, norm_vars>>

set_request_delay(delay) ==
    /\ mr_pc \in {"idle", "done"}
    /\ request_count <= ConfigUntil
    /\ comm_request_delay' =
           IF delay > CommMinRequestDelay THEN delay ELSE CommMinRequestDelay
    /\ ForgetCall
    /\ UNCHANGED <<comm_max_retries, request_count, session_headers>>
    /\ UNCHANGED <<off_vars, web_vars, norm_vars>>

\* a public operation calls _make_request
CallOp(op) ==
    /\ mr_pc \in {"idle", "done"}
    /\ request_count + comm_max_retries + 1 <= MaxRequests
    /\ mr_pc' = "attempting"
    /\ mr_op' = op
    /\ attempt' = 0
    /\ responses' = <<>>
    /\ alt_responses' = <<>>
    /\ sleeps' = <<>>
    /\ mr_outcome' = Pending
    /\ op_result' = Pending
    /\ UNCHANGED <<comm_max_retries, comm_request_delay, request_count,
                   session_headers>>
    /\ UNCHANGED <<off_vars, web_vars, norm_vars>>

\* status 429: sleep Retry-After (60 when the header is absent) and continue;
\* int() of a header that is not a number raises ValueError, which the
\* except clause for requests.RequestException does not catch
Attempt429(r) ==
    /\ Issue(r)
    /\ r.kind = "http" /\ r.status = 429
    /\ IF r.retry_after = "http_date"
       THEN /\ sleeps' = Append(sleeps, PreSleep)
            /\ Finish(Raise("ValueError"))
       ELSE /\ sleeps' = sleeps \o
                  <<PreSleep,
                    [kind |-> "retry_after",
                     ms |-> 1000 * (IF r.retry_after = "seconds"
                                    THEN RetryAfterSeconds
                                    ELSE DefaultRetryAfter)]>>
            /\ Continue
    /\ UNCHANGED <<comm_max_retries, comm_request_delay, session_headers,
                   mr_op, alt_responses>>
    /\ UNCHANGED <<off_vars, web_vars, norm_vars>>

Attempt404_Retried(r) ==
    /\ Issue(r)
    /\ r.kind = "http" /\ r.status = 404
    /\ sleeps' = Append(sleeps, PreSleep)
    /\ Continue
    /\ UNCHANGED <<comm_max_retries, comm_request_delay, session_headers,
                   mr_op, alt_responses>>
    /\ UNCHANGED <<off_vars, web_vars, norm_vars>>

\* status 404: return None
Attempt404(r) ==
    /\ Issue(r)
    /\ r.kind = "http" /\ r.status = 404
    /\ sleeps' = Append(sleeps, PreSleep)
    /\ Finish(Return("None"))
    /\ UNCHANGED <<comm_max_retries, comm_request_delay, session_headers,
                   mr_op, alt_responses>>
    /\ UNCHANGED <<off_vars, web_vars, norm_vars>>

\* _try_alternate_request: what it returns for the answer a
AlternateResult(a) ==
    IF a.kind = "exception" THEN "None"
    ELSE IF a.status # 200 THEN "None"
    ELSE IF a.body = "not_json" THEN "html_content"
    ELSE a.body

\* the session headers after _try_alternate_request: the restore is skipped
\* when session.get raises
AlternateHeaders(a) ==
    IF a.kind = "exception" THEN "alternate" ELSE session_headers

\* truthiness of the value _try_alternate_request returned
Truthy(v) == v \notin {"None", "empty"}

Attempt403_AnyAttempt(r, a) ==
    /\ Issue(r)
    /\ r.kind = "http" /\ r.status = 403
    /\ alt_responses' = Append(alt_responses, a)
    /\ session_headers' = AlternateHeaders(a)
    /\ sleeps' = sleeps \o
          <<PreSleep,
            [kind |-> "alternate_delay", ms |-> comm_request_delay * 2]>>
    /\ Finish(IF Truthy(AlternateResult(a))
              THEN Return(AlternateResult(a))
              ELSE Return("None"))
    /\ UNCHANGED <<comm_max_retries, comm_request_delay, mr_op>>
    /\ UNCHANGED <<off_vars, web_vars, norm_vars>>

\* status 403: on the first attempt try the alternate request once
Attempt403(r, a) ==
    /\ Issue(r)
    /\ r.kind = "http" /\ r.status = 403
    /\ IF attempt = 0
       THEN /\ alt_responses' = Append(alt_responses, a)
            /\ session_headers' = AlternateHeaders(a)
            /\ sleeps' = sleeps \o
                  <<PreSleep,
                    [kind |-> "alternate_delay", ms |-> comm_request_delay * 2]>>
            /\ Finish(IF Truthy(AlternateResult(a))
                      THEN Return(AlternateResult(a))
                      ELSE Return("None"))
       ELSE /\ a = TransportError
            /\ sleeps' = Append(sleeps, PreSleep)
            /\ Finish(Return("None"))
            /\ UNCHANGED <<alt_responses, session_headers>>
    /\ UNCHANGED <<comm_max_retries, comm_request_delay, mr_op>>
    /\ UNCHANGED <<off_vars, web_vars, norm_vars>>

\* the except clause: back off and go on, or raise APIError
HandleRequestException(u) ==
    IF RetryBudgetLeft
    THEN /\ sleeps' = sleeps \o
               <<PreSleep, [kind |-> "backoff", ms |-> BackoffWait(u)]>>
         /\ Continue
    ELSE /\ u = 0
         /\ sleeps' = Append(sleeps, PreSleep)
         /\ Finish(Raise("APIError"))

\* status >= 500: back off and continue while retries remain; on the last
\* attempt raise_for_status raises HTTPError into the except clause
AttemptServerError(r, u) ==
    /\ Issue(r)
    /\ r.kind = "http" /\ r.status >= 500
    /\ HandleRequestException(u)
    /\ UNCHANGED <<comm_max_retries, comm_request_delay, session_headers,
                   mr_op, alt_responses>>
    /\ UNCHANGED <<off_vars, web_vars, norm_vars>>

\* any other status of 400 or more: raise_for_status raises HTTPError
AttemptClientError(r, u) ==
    /\ Issue(r)
    /\ r.kind = "http" /\ r.status >= 400 /\ r.status < 500
    /\ r.status \notin {403, 404, 429}
    /\ HandleRequestException(u)
    /\ UNCHANGED <<comm_max_retries, comm_request_delay, session_headers,
                   mr_op, alt_responses>>
    /\ UNCHANGED <<off_vars, web_vars, norm_vars>>

\* session.get raises requests.RequestException
AttemptException(r, u) ==
    /\ Issue(r)
    /\ r.kind = "exception"
    /\ HandleRequestException(u)
    /\ UNCHANGED <<comm_max_retries, comm_request_delay, session_headers,
                   mr_op, alt_responses>>
    /\ UNCHANGED <<off_vars, web_vars, norm_vars>>

\* a status below 400: parse and validate the body
AttemptSuccess(r) ==
    /\ Issue(r)
    /\ r.kind = "http" /\ r.status < 400
    /\ sleeps' = Append(sleeps, PreSleep)
    /\ Finish(ParseBody(r.body))
    /\ UNCHANGED <<comm_max_retries, comm_request_delay, session_headers,
                   mr_op, alt_responses>>
    /\ UNCHANGED <<off_vars, web_vars, norm_vars>>

CommFields ==
    /\ comm_max_retries = CommDefaultMaxRetries
    /\ comm_request_delay = CommDefaultRequestDelay
    /\ request_count = 0
    /\ session_headers = "browser"
    /\ mr_pc = "idle"
    /\ mr_op = "-"
    /\ attempt = 0
    /\ responses = <<>>
    /\ alt_responses = <<>>
    /\ sleeps = <<>>
    /\ mr_outcome = Pending
    /\ op_result = Pending

CommNext ==
    \/ \E n \in 0..MaxRetriesCap : SetMaxRetries(n)
    \/ \E d \in {50} : set_request_delay(d)
    \/ \E op \in PublicOps : CallOp(op)
    \/ \E r \in Responses : Attempt429(r)
    \/ \E r \in Responses : Attempt404(r)
    \/ \E r \in Responses, a \in AltResponses : Attempt403(r, a)
    \/ \E r \in Responses, u \in UniformZeroOne : AttemptServerError(r, u)
    \/ \E r \in Responses, u \in UniformZeroOne : AttemptClientError(r, u)
    \/ \E r \in Responses, u \in UniformZeroOne : AttemptException(r, u)
    \/ \E r \in Responses : AttemptSuccess(r)

-----------------------------------------------------------------------------
(* RedditOfficial: constants *)

\* @handle_rate_limit(max_retries=3, base_delay=1.0) on every operation
DecoratorMaxRetries == 3
DecoratorBaseDelay == 1000
\* defaults of __init__ when the environment sets nothing
DefaultMaxRetries == 3
DefaultBaseDelay == 2000
DefaultRequestDelay == 500
DefaultMinJitter == 300
DefaultMaxJitter == 1200
DefaultMaxRequestsPerMinute == 30
\* _enforce_rate_limit
BurstWindow == 60000
BurstBufferMin == 1000
BurstBufferMax == 5000
\* enable_stealth_mode
StealthRequestDelay == 1000
StealthMaxRequestsPerMinute == 20
StealthMinJitter == 500
StealthMaxJitter == 2000
\* disable_stealth_mode
FastRequestDelay == 100
FastMaxRequestsPerMinute == 60

(* RedditOfficial: bounds *)

\* requests one client may pass through _enforce_rate_limit over its life
MaxPassed == 4
\* seconds after construction up to which the caller may still idle
IdleHorizon == 60
\* in the specification of the retry wrapper a decorated call starts while
\* at most this many requests have passed
RetryCallUntil == 0

\* time.time() at construction
StartTime == 100 * 1000

\* values of REDDIT_MAX_REQUESTS_PER_MINUTE in the environment (30 when unset)
EnvMaxRequestsPerMinute == {2, DefaultMaxRequestsPerMinute}

\* idle time between two calls (ms)
IdleSteps == {50 * 1000}

\* the argument None of set_rate_limit_config
None == 0 - 1

\* arguments of set_rate_limit_config calls
ConfigCalls ==
    { [max_retries |-> 1, base_delay |-> 500, request_delay |-> 2000] }

\* exceptions the vendor library raises inside an operation: cls is the
\* exception class, error_type the type of a RedditAPIException item, and
\* marker tells whether str(e).lower() contains "429", "too many requests"
\* or "rate limit"
VendorExceptions ==
    { [cls |-> "RedditAPIException", error_type |-> "RATELIMIT", marker |-> FALSE],
      [cls |-> "TooManyRequests", error_type |-> "-", marker |-> TRUE],
      [cls |-> "NotFound", error_type |-> "-", marker |-> FALSE],
      [cls |-> "ServerError", error_type |-> "-", marker |-> FALSE] }

\* attempts in which the vendor call raised nothing
VendorOk == [cls |-> "ok", error_type |-> "-", marker |-> FALSE]
NotAuthenticated == [cls |-> "not_called", error_type |-> "-", marker |-> FALSE]

Min(a, b) == IF a < b THEN a ELSE b
Max(a, b) == IF a > b THEN a ELSE b

-----------------------------------------------------------------------------
(* RedditOfficial._enforce_rate_limit *)

\* self._request_times = [t for t in self._request_times if current_time - t < 60]
Prune(times, current_time) ==
    SelectSeq(times, LAMBDA t : current_time - t < BurstWindow)

\* history the burst check looks at
CheckedHistory ==
    IF burst_protection THEN Prune(request_times, now) ELSE request_times

\* `if len(self._request_times) >= self.max_requests_per_minute`
BurstHit ==
    burst_protection /\ Len(CheckedHistory) >= max_requests_per_minute

BurstWait_AgeOnly(b) ==
    IF BurstHit THEN (now - CheckedHistory[1]) + b ELSE 0

\* wait_time = 60 - (current_time - self._request_times[0]) + random.uniform(1, 5)
BurstWait(b) ==
    IF BurstHit THEN BurstWindow - (now - CheckedHistory[1]) + b ELSE 0

\* delay_with_jitter
DelayWithJitter(j) ==
    IF use_random_delays THEN (request_delay * j) \div 1000 ELSE request_delay

DelaySleep_Half(j) ==
    LET time_since_last == now - last_request_time
    IN IF time_since_last < DelayWithJitter(j)
       THEN (DelayWithJitter(j) - time_since_last) \div 2
       ELSE 0

\* sleep_time of the inter-request delay; time_since_last is computed from
\* the current_time read at entry, before any burst wait
DelaySleep(j) ==
    LET time_since_last == now - last_request_time
    IN IF time_since_last < DelayWithJitter(j)
       THEN DelayWithJitter(j) - time_since_last
       ELSE 0

\* time.time() at the end of _enforce_rate_limit
TimeRecorded(b, j) == now + BurstWait(b) + DelaySleep(j)

\* self._request_times after the call
HistoryAfter(b, j) ==
    IF burst_protection
    THEN Append(IF BurstHit THEN <<>> ELSE CheckedHistory, TimeRecorded(b, j))
    ELSE request_times

\* the whole of _enforce_rate_limit, with burst buffer b and jitter j drawn;
\* the clock reads TimeRecorded(b, j) when it returns
EnforceRateLimit(b, j) ==
    /\ Len(passed) < MaxPassed
    /\ last_request_time' = TimeRecorded(b, j)
    /\ request_times' = HistoryAfter(b, j)
    /\ passed' = Append(passed, TimeRecorded(b, j))
    /\ erl' = [start |-> now,
               in_window |-> Len(Prune(request_times, now)),
               oldest |-> IF Prune(request_times, now) = <<>> THEN 0
                          ELSE Prune(request_times, now)[1],
               cap |-> max_requests_per_minute,
               burst_protection |-> burst_protection,
               prev_last |-> last_request_time,
               delay_with_jitter |-> DelayWithJitter(j),
               recorded |-> TimeRecorded(b, j)]

BurstBuffers == {BurstBufferMin, BurstBufferMax}
JitterDraws == {min_jitter, max_jitter}

NoEnforcement ==
    [start |-> 0, in_window |-> 0, oldest |-> 0, cap |-> 0,
     burst_protection |-> FALSE, prev_last |-> 0, delay_with_jitter |-> 0,
     recorded |-> 0]

-----------------------------------------------------------------------------
(* handle_rate_limit and the decorated operations *)

\* every operation catches what the vendor call raises and raises
\* APIError(f"Failed to ...: {e}"): the text of e is kept, its class is not
OperationRaises(e) ==
    [cls |-> "APIError", error_type |-> "-", marker |-> e.marker]

\* which except clause of the wrapper handles the exception x, and how
WrapperBranch(x) ==
    IF x.cls = "RedditAPIException"
    THEN IF x.error_type \in {"RATELIMIT", "TOO_MANY_REQUESTS"}
         THEN "rate_limit" ELSE "api_error"
    ELSE IF x.marker THEN "bot_detection" ELSE "reraise"

\* `if attempt == max_retries` of the wrapper: the decorator's argument
WrapperExhausted == wr_attempt = DecoratorMaxRetries

\* delay = base_delay * (2 ** attempt) * jitter, or 3 ** attempt on the
\* bot-detection branch: base_delay is the decorator's argument
WrapperDelay(branch, w) ==
    (DecoratorBaseDelay
       * Pow(IF branch = "rate_limit" THEN 2 ELSE 3, wr_attempt) * w) \div 1000

\* random.uniform(0.5, 1.5) and random.uniform(1.0, 2.0), in permille
WrapperJitter(branch) ==
    IF branch = "rate_limit" THEN {500, 1500} ELSE {1000, 2000}

WrapperFinish(out) ==
    /\ wr_pc' = "done"
    /\ wr_outcome' = out
    /\ UNCHANGED wr_attempt

\* an operation is called through its decorator; of the authenticate call
\* before it the caller keeps the result only
CallOfficial ==
    /\ wr_pc \in {"idle", "done"}
    /\ Len(passed) < MaxPassed
    /\ wr_pc' = "attempting"
    /\ wr_attempt' = 0
    /\ outcomes' = <<>>
    /\ wr_sleeps' = <<>>
    /\ wr_outcome' = Pending
    /\ auth_outcome' = [kind |-> auth_outcome.kind, value |-> auth_outcome.value]
    /\ UNCHANGED <<reddit, config_vars, limiter_vars, config_log>>
    /\ UNCHANGED <<comm_vars, web_vars, norm_vars>>

\* `if not self.reddit: return None`
AttemptNotAuthenticated ==
    /\ wr_pc = "attempting"
    /\ reddit = "none"
    /\ outcomes' = Append(outcomes, NotAuthenticated)
    /\ WrapperFinish(Return("None"))
    /\ UNCHANGED <<reddit, auth_outcome, config_vars, limiter_vars, config_log, wr_sleeps>>
    /\ UNCHANGED <<comm_vars, web_vars, norm_vars>>

\* the vendor call succeeds
AttemptOk(b, j) ==
    /\ wr_pc = "attempting"
    /\ reddit # "none"
    /\ EnforceRateLimit(b, j)
    /\ now' = TimeRecorded(b, j)
    /\ outcomes' = Append(outcomes, VendorOk)
    /\ WrapperFinish(Return("payload"))
    /\ UNCHANGED <<reddit, auth_outcome, config_vars, config_log, wr_sleeps>>
    /\ UNCHANGED <<comm_vars, web_vars, norm_vars>>

\* the vendor call raises e
AttemptRaises(e, b, j, w) ==
    /\ wr_pc = "attempting"
    /\ reddit # "none"
    /\ EnforceRateLimit(b, j)
    /\ outcomes' = Append(outcomes, e)
    /\ LET x == OperationRaises(e)
           branch == WrapperBranch(x)
       IN CASE branch \in {"rate_limit", "bot_detection"} ->
                 IF WrapperExhausted
                 THEN /\ w = 1000
                      /\ WrapperFinish(Raise("RateLimitError"))
                      /\ now' = TimeRecorded(b, j)
                      /\ UNCHANGED wr_sleeps
                 ELSE /\ w \in WrapperJitter(branch)
                      /\ now' = TimeRecorded(b, j) + WrapperDelay(branch, w)
                      /\ wr_sleeps' = Append(wr_sleeps,
                             [kind |-> branch, ms |-> WrapperDelay(branch, w)])
                      /\ wr_attempt' = wr_attempt + 1
                      /\ UNCHANGED <<wr_pc, wr_outcome>>
            [] OTHER ->
                 /\ w = 1000
                 /\ WrapperFinish(Raise("APIError"))
                 /\ now' = TimeRecorded(b, j)
                 /\ UNCHANGED wr_sleeps
    /\ UNCHANGED <<reddit, auth_outcome, config_vars, config_log>>
    /\ UNCHANGED <<comm_vars, web_vars, norm_vars>>

-----------------------------------------------------------------------------
(* RedditOfficial: configuration, authentication, idle time *)

\* get_anti_bot_status: the fields that describe the configuration
get_anti_bot_status ==
    [stealth_mode |-> use_random_delays /\ burst_protection,
     random_delays_enabled |-> use_random_delays,
     burst_protection_enabled |-> burst_protection,
     request_delay |-> request_delay,
     max_requests_per_minute |-> max_requests_per_minute,
     jitter_range |-> <<min_jitter, max_jitter>>,
     recent_requests |-> Len(request_times)]

ForgetOfficialCall ==
    /\ wr_pc' = "idle"
    /\ wr_attempt' = 0
    /\ outcomes' = <<>>
    /\ wr_sleeps' = <<>>
    /\ wr_outcome' = Pending

set_rate_limit_config(c) ==
    /\ wr_pc \in {"idle", "done"}
    /\ Len(passed) <= ConfigUntil
    /\ max_retries' = IF c.max_retries # None THEN c.max_retries ELSE max_retries
    /\ base_delay' = IF c.base_delay # None THEN c.base_delay ELSE base_delay
    /\ request_delay' =
           IF c.request_delay # None THEN c.request_delay ELSE request_delay
    /\ config_log' = [config_log EXCEPT
                         !.last = "set_rate_limit_config",
                         !.calls = "other",
                         !.retry_set = (c.max_retries # None /\ c.base_delay # None)]
    /\ ForgetOfficialCall
    /\ UNCHANGED <<reddit, auth_outcome, use_random_delays, min_jitter, max_jitter,
                   burst_protection, max_requests_per_minute, limiter_vars>>
    /\ UNCHANGED <<comm_vars, web_vars, norm_vars>>

enable_stealth_mode ==
    /\ wr_pc \in {"idle", "done"}
    /\ Len(passed) <= ConfigUntil
    /\ use_random_delays' = TRUE
    /\ burst_protection' = TRUE
    /\ request_delay' = Max(request_delay, StealthRequestDelay)
    /\ max_requests_per_minute' =
           Min(max_requests_per_minute, StealthMaxRequestsPerMinute)
    /\ min_jitter' = StealthMinJitter
    /\ max_jitter' = StealthMaxJitter
    /\ config_log' = [last |-> "enable_stealth_mode",
                      before_request_delay |-> request_delay,
                      before_max_requests_per_minute |-> max_requests_per_minute,
                      env_default |-> config_log.env_default,
                      retry_set |-> config_log.retry_set,
                      calls |-> IF config_log.calls = "none"
                                THEN "enable" ELSE "other"]
    /\ ForgetOfficialCall
    /\ UNCHANGED <<reddit, auth_outcome, max_retries, base_delay, limiter_vars>>
    /\ UNCHANGED <<comm_vars, web_vars, norm_vars>>

disable_stealth_mode ==
    /\ wr_pc \in {"idle", "done"}
    /\ Len(passed) <= ConfigUntil
    /\ use_random_delays' = FALSE
    /\ burst_protection' = FALSE
    /\ request_delay' = FastRequestDelay
    /\ max_requests_per_minute' = FastMaxRequestsPerMinute
    /\ min_jitter' = DefaultMinJitter
    /\ max_jitter' = DefaultMaxJitter
    /\ config_log' = [config_log EXCEPT
                         !.last = "disable_stealth_mode",
                         !.calls = IF config_log.calls = "enable"
                                   THEN "enable_disable" ELSE "other"]
    /\ ForgetOfficialCall
    /\ UNCHANGED <<reddit, auth_outcome, max_retries, base_delay, limiter_vars>>
    /\ UNCHANGED <<comm_vars, web_vars, norm_vars>>

\* how an authenticate call ended, with what it met on its way
AuthEnded(out, has_credentials, login, test_ok) ==
    [kind |-> out.kind, value |-> out.value,
     has_credentials |-> has_credentials, login |-> login, test_ok |-> test_ok]

\* authenticate: without client credentials it raises AuthenticationError;
\* a failed username/password login (login = "failed"; "not_tried" when
\* no login is configured) falls back to the read-only session; a
\* praw.Reddit constructor failure in read-only mode raises
\* AuthenticationError; a failed connection test still returns True because
\* self.reddit is set. a and t are the sleeps before the session is built
\* (random.uniform(0.5, 2.0)) and before the connection test
\* (random.uniform(1.0, 2.0)).
authenticate(has_credentials, login, construct_ok, test_ok, a, t) ==
    /\ wr_pc = "idle"
    /\ auth_outcome = Pending
    /\ LET pre == IF use_random_delays THEN a ELSE 0
           ended(out) == AuthEnded(out, has_credentials, login, test_ok)
       IN IF ~has_credentials
          THEN /\ auth_outcome' = ended(Raise("AuthenticationError"))
               /\ UNCHANGED <<reddit, now>>
          ELSE IF login # "ok" /\ ~construct_ok
          THEN /\ auth_outcome' = ended(Raise("AuthenticationError"))
               /\ now' = now + pre
               /\ UNCHANGED reddit
          ELSE /\ reddit' = IF login = "ok" THEN "user" ELSE "read_only"
               /\ now' = now + pre + t
               /\ auth_outcome' = ended(Return("True"))
    /\ UNCHANGED <<config_vars, request_times, last_request_time, passed, erl,
                   config_log, wrapper_vars>>
    /\ UNCHANGED <<comm_vars, web_vars, norm_vars>>

\* the caller does something else for d ms
Idle(d) ==
    /\ wr_pc \in {"idle", "done"}
    /\ now < StartTime + IdleHorizon * 1000
    /\ now' = now + d
    /\ ForgetOfficialCall
    /\ UNCHANGED <<reddit, auth_outcome, auth_outcome, config_vars, request_times,
                   last_request_time, passed, erl, config_log>>
    /\ UNCHANGED <<comm_vars, web_vars, norm_vars>>

OffFields(rpm) ==
    /\ reddit = "none"
    /\ auth_outcome = Pending
    /\ max_retries = DefaultMaxRetries
    /\ base_delay = DefaultBaseDelay
    /\ request_delay = DefaultRequestDelay
    /\ use_random_delays = TRUE
    /\ min_jitter = DefaultMinJitter
    /\ max_jitter = DefaultMaxJitter
    /\ burst_protection = TRUE
    /\ max_requests_per_minute = rpm
    /\ request_times = <<>>
    /\ last_request_time = 0
    /\ now = StartTime
    /\ passed = <<>>
    /\ erl = NoEnforcement
    /\ config_log = [last |-> "none", before_request_delay |-> 0,
                     before_max_requests_per_minute |-> 0,
                     env_default |-> (rpm = DefaultMaxRequestsPerMinute),
                     retry_set |-> FALSE,
                     calls |-> "none"]
    /\ wr_pc = "idle"
    /\ wr_attempt = 0
    /\ outcomes = <<>>
    /\ wr_sleeps = <<>>
    /\ wr_outcome = Pending

\* the retry wrapper around the operations, with configuration and
\* authentication
OffNext ==
    \/ CallOfficial /\ Len(passed) <= RetryCallUntil
    \/ AttemptNotAuthenticated
    \/ \E b \in BurstBuffers, j \in JitterDraws : AttemptOk(b, j)
    \/ \E e \in VendorExceptions, b \in BurstBuffers, j \in JitterDraws,
          w \in {500, 1000, 1500, 2000} : AttemptRaises(e, b, j, w)
    \/ \E c \in ConfigCalls : set_rate_limit_config(c)
    \/ enable_stealth_mode
    \/ disable_stealth_mode
    \/ \E has_credentials \in BOOLEAN, login \in {"not_tried", "ok", "failed"},
          construct_ok \in BOOLEAN, test_ok \in BOOLEAN,
          a \in {500}, t \in {1000, 2000} :
          authenticate(has_credentials, login, construct_ok, test_ok, a, t)

\* the rate limiter under a sequence of calls whose vendor call succeeds,
\* with idle time between them
LimNext ==
    \/ CallOfficial
    \/ AttemptNotAuthenticated
    \/ \E b \in BurstBuffers, j \in JitterDraws : AttemptOk(b, j)
    \/ \E c \in ConfigCalls : set_rate_limit_config(c)
    \/ enable_stealth_mode
    \/ disable_stealth_mode
    \/ \E has_credentials \in BOOLEAN, login \in {"not_tried", "ok", "failed"},
          construct_ok \in BOOLEAN, test_ok \in BOOLEAN,
          a \in {500}, t \in {1000, 2000} :
          authenticate(has_credentials, login, construct_ok, test_ok, a, t)
    \/ \E d \in IdleSteps : Idle(d)

-----------------------------------------------------------------------------
(* handle_rate_limit around any function: the decorator taken by itself,   *)
(* its func raising what it raises without an operation's own handler      *)

\* func(*args, **kwargs) returns
FuncReturns ==
    /\ wr_pc = "attempting"
    /\ outcomes' = Append(outcomes, VendorOk)
    /\ WrapperFinish(Return("payload"))
    /\ UNCHANGED <<reddit, auth_outcome, config_vars, limiter_vars, config_log,
                   wr_sleeps>>
    /\ UNCHANGED <<comm_vars, web_vars, norm_vars>>

\* func(*args, **kwargs) raises e: the wrapper sleeps and goes round again
\* on a rate-limit item or a rate-limit text, raises RateLimitError on the
\* last attempt, raises APIError for any other RedditAPIException and lets
\* every other exception through
FuncRaises(e, w) ==
    /\ wr_pc = "attempting"
    /\ outcomes' = Append(outcomes, e)
    /\ LET branch == WrapperBranch(e)
       IN CASE branch \in {"rate_limit", "bot_detection"} ->
                 IF WrapperExhausted
                 THEN /\ w = 1000
                      /\ WrapperFinish(Raise("RateLimitError"))
                      /\ UNCHANGED <<wr_sleeps, now>>
                 ELSE /\ w \in WrapperJitter(branch)
                      /\ now' = now + WrapperDelay(branch, w)
                      /\ wr_sleeps' = Append(wr_sleeps,
                             [kind |-> branch, ms |-> WrapperDelay(branch, w)])
                      /\ wr_attempt' = wr_attempt + 1
                      /\ UNCHANGED <<wr_pc, wr_outcome>>
            [] branch = "api_error" ->
                 /\ w = 1000
                 /\ WrapperFinish(Raise("APIError"))
                 /\ UNCHANGED <<wr_sleeps, now>>
            [] OTHER ->
                 /\ w = 1000
                 /\ WrapperFinish(Raise(e.cls))
                 /\ UNCHANGED <<wr_sleeps, now>>
    /\ UNCHANGED <<reddit, auth_outcome, config_vars, request_times,
                   last_request_time, passed, erl, config_log>>
    /\ UNCHANGED <<comm_vars, web_vars, norm_vars>>

\* exceptions a decorated function may raise: those of the vendor library
\* and the APIError of the operations, with and without a rate-limit text
FuncExceptions ==
    VendorExceptions \cup {OperationRaises(e) : e \in VendorExceptions}

\* one decorated call
DecNext ==
    \/ CallOfficial /\ wr_pc = "idle"
    \/ FuncReturns
    \/ \E e \in FuncExceptions, w \in {500, 1000, 1500, 2000} : FuncRaises(e, w)

-----------------------------------------------------------------------------
(* web_ui: the Flask handlers and the job threads of WebEarthwormApp *)

\* requests to /api/search and /api/subreddit the model lets arrive
MaxJobs == 2

Handlers == 1..MaxJobs

\* REDDIT_MAX_REQUESTS_PER_MINUTE values the web deployment is started with
WebEnvMaxRequestsPerMinute == {1, DefaultMaxRequestsPerMinute}

\* datetime.now().strftime('%H%M%S'): the clock, to the second
ClockSecond == now \div 1000

\* positions of a job thread inside an adapter operation
InAdapter == {"enforce", "burst_sleep", "delay_sleep", "record", "vendor"}

WebUnchangedOfficial ==
    UNCHANGED <<reddit, auth_outcome, config_vars, passed, erl, config_log,
                wrapper_vars>>

\* /api/initialize: initialize_platform creates and authenticates the
\* adapter; on success current_platform is set (the model follows the
\* first successful initialisation only)
api_initialize(ok) ==
    /\ current_platform = "none"
    /\ current_platform' = IF ok THEN "reddit" ELSE "none"
    /\ reddit' = IF ok THEN "read_only" ELSE "none"
    /\ UNCHANGED <<job_counter, active_jobs, handler, thread, auth_outcome,
                   config_vars, limiter_vars, config_log, wrapper_vars>>
    /\ UNCHANGED <<comm_vars, norm_vars>>

\* /api/search or /api/subreddit arrives; without an initialised platform
\* the handler answers "Platform not initialized" and starts nothing
api_request(h, job_type) ==
    /\ handler[h].pc = "none"
    /\ handler' = [handler EXCEPT ![h] =
           [pc |-> IF current_platform = "none" THEN "refused" ELSE "load",
            job_type |-> job_type, loaded |-> 0, job_id |-> <<0, 0>>]]
    /\ UNCHANGED <<current_platform, job_counter, active_jobs, thread, off_vars>>
    /\ UNCHANGED <<comm_vars, norm_vars>>

\* self.job_counter += 1: the read
CounterLoad(h) ==
    /\ handler[h].pc = "load"
    /\ handler' = [handler EXCEPT ![h].pc = "store", ![h].loaded = job_counter]
    /\ UNCHANGED <<current_platform, job_counter, active_jobs, thread, off_vars>>
    /\ UNCHANGED <<comm_vars, norm_vars>>

\* self.job_counter += 1: the write
CounterStore(h) ==
    /\ handler[h].pc = "store"
    /\ job_counter' = handler[h].loaded + 1
    /\ handler' = [handler EXCEPT ![h].pc = "register"]
    /\ UNCHANGED <<current_platform, active_jobs, thread, off_vars>>
    /\ UNCHANGED <<comm_vars, norm_vars>>

\* the rest of start_collection_job: the job id, the "running" entry,
\* and the thread is started
RegisterAndStart(h) ==
    /\ handler[h].pc = "register"
    /\ LET job_id == <<job_counter, ClockSecond>>
       IN /\ handler' = [handler EXCEPT ![h].pc = "returned", ![h].job_id = job_id]
          /\ active_jobs' =
                 [j \in DOMAIN active_jobs \cup {job_id} |->
                     IF j = job_id THEN "running" ELSE active_jobs[j]]
          /\ thread' = [thread EXCEPT ![h] =
                 [pc |-> "started", job_id |-> job_id, current_time |-> 0,
                  wake |-> 0]]
    /\ UNCHANGED <<current_platform, job_counter, off_vars>>
    /\ UNCHANGED <<comm_vars, norm_vars>>

\* run_job calls the application, which calls an operation of the shared
\* adapter: _enforce_rate_limit reads the clock, prunes the history and
\* decides on the burst wait
JobEnterAdapter(h, b, j) ==
    /\ thread[h].pc = "started"
    /\ reddit # "none"
    /\ thread' = [thread EXCEPT
           ![h].pc = IF BurstHit THEN "burst_sleep" ELSE "delay_sleep",
           ![h].current_time = now,
           ![h].wake = now + (IF BurstHit THEN BurstWait(b) ELSE DelaySleep(j))]
    /\ request_times' = CheckedHistory
    /\ UNCHANGED <<current_platform, job_counter, active_jobs, handler,
                   last_request_time, now>>
    /\ WebUnchangedOfficial
    /\ UNCHANGED <<comm_vars, norm_vars>>

\* time.sleep(wait_time) returns; the history is reset
JobBurstWake(h, j) ==
    /\ thread[h].pc = "burst_sleep"
    /\ now' = Max(now, thread[h].wake)
    /\ request_times' = <<>>
    /\ thread' = [thread EXCEPT
           ![h].pc = "delay_sleep",
           ![h].wake =
               LET time_since_last == thread[h].current_time - last_request_time
               IN now' + (IF time_since_last < DelayWithJitter(j)
                          THEN DelayWithJitter(j) - time_since_last ELSE 0)]
    /\ UNCHANGED <<current_platform, job_counter, active_jobs, handler,
                   last_request_time>>
    /\ WebUnchangedOfficial
    /\ UNCHANGED <<comm_vars, norm_vars>>

\* time.sleep(sleep_time) returns, or there was nothing to sleep
JobDelayWake(h) ==
    /\ thread[h].pc = "delay_sleep"
    /\ now' = Max(now, thread[h].wake)
    /\ thread' = [thread EXCEPT ![h].pc = "record"]
    /\ UNCHANGED <<current_platform, job_counter, active_jobs, handler,
                   request_times, last_request_time>>
    /\ WebUnchangedOfficial
    /\ UNCHANGED <<comm_vars, norm_vars>>

\* the bookkeeping at the end of _enforce_rate_limit
JobRecord(h) ==
    /\ thread[h].pc = "record"
    /\ last_request_time' = now
    /\ request_times' =
           IF burst_protection THEN Append(request_times, now) ELSE request_times
    /\ thread' = [thread EXCEPT ![h].pc = "vendor"]
    /\ UNCHANGED <<current_platform, job_counter, active_jobs, handler, now>>
    /\ WebUnchangedOfficial
    /\ UNCHANGED <<comm_vars, norm_vars>>

\* the operation returns or raises, and run_job stores the job's result
JobFinish(h, ok) ==
    /\ thread[h].pc = "vendor"
    /\ thread' = [thread EXCEPT ![h].pc = "finished"]
    /\ active_jobs' = [active_jobs EXCEPT ![thread[h].job_id] =
                          IF ok THEN "completed" ELSE "failed"]
    /\ UNCHANGED <<current_platform, job_counter, handler, off_vars>>
    /\ UNCHANGED <<comm_vars, norm_vars>>

NoHandler == [pc |-> "none", job_type |-> "-", loaded |-> 0, job_id |-> <<0, 0>>]
NoThread == [pc |-> "none", job_id |-> <<0, 0>>, current_time |-> 0, wake |-> 0]

WebFields ==
    /\ current_platform = "none"
    /\ job_counter = 0
    /\ active_jobs = <<>>
    /\ handler = [h \in Handlers |-> NoHandler]
    /\ thread = [h \in Handlers |-> NoThread]

WebNext ==
    \/ \E ok \in BOOLEAN : api_initialize(ok)
    \/ \E h \in Handlers, t \in {"search", "subreddit"} : api_request(h, t)
    \/ \E h \in Handlers : CounterLoad(h)
    \/ \E h \in Handlers : CounterStore(h)
    \/ \E h \in Handlers : RegisterAndStart(h)
    \/ \E h \in Handlers, b \in BurstBuffers, j \in JitterDraws :
          JobEnterAdapter(h, b, j)
    \/ \E h \in Handlers, j \in JitterDraws : JobBurstWake(h, j)
    \/ \E h \in Handlers : JobDelayWake(h)
    \/ \E h \in Handlers : JobRecord(h)
    \/ \E h \in Handlers, ok \in BOOLEAN : JobFinish(h, ok)


-----------------------------------------------------------------------------
(* Data functions of the adapters: text cleaning, record extraction,       *)
(* comment filtering, the 'limit' query parameter                          *)

\* longest text, in tokens, given to _clean_text_content
MaxTextLen == 3
\* longest comment listing delivered to get_comments
MaxListing == 4

\* params = {'limit': min(limit, 100)} of get_subreddit_posts
SubredditPostsLimitCap == 100

\* a text is a sequence of tokens; "&" followed by "amp;" is the entity
\* '&amp;', " " is white space, "[deleted]" and "[removed]" are Reddit's
\* sentinels, "hello" is any other run of characters
Tokens == {"&", "amp;", "lt;", " ", "hello", "[deleted]", "[removed]"}

RECURSIVE TextsOfLen(_)
TextsOfLen(n) ==
    IF n = 0 THEN {<<>>}
    ELSE {Append(t, c) : t \in TextsOfLen(n - 1), c \in Tokens}

Texts == UNION {TextsOfLen(n) : n \in 0..MaxTextLen}

Sentinels == {<<"[deleted]">>, <<"[removed]">>}

\* str.replace('&' + name, ch): every non-overlapping occurrence, from the left
RECURSIVE ReplaceEntity(_, _, _)
ReplaceEntity(text, name, ch) ==
    IF text = <<>> THEN <<>>
    ELSE IF Len(text) >= 2 /\ text[1] = "&" /\ text[2] = name
         THEN <<ch>> \o ReplaceEntity(SubSeq(text, 3, Len(text)), name, ch)
         ELSE <<text[1]>> \o ReplaceEntity(Tail(text), name, ch)

RECURSIVE StripLeft(_)
StripLeft(text) ==
    IF text # <<>> /\ text[1] = " " THEN StripLeft(Tail(text)) ELSE text

RECURSIVE StripRight(_)
StripRight(text) ==
    IF text # <<>> /\ text[Len(text)] = " "
    THEN StripRight(SubSeq(text, 1, Len(text) - 1)) ELSE text

\* str.strip()
Strip(text) == StripRight(StripLeft(text))

\* _clean_text_content; None is treated like '' by every caller modelled
\* here and is not told apart from it
CleanTextContent(text) ==
    IF text = <<>> \/ text \in Sentinels THEN <<>>
    ELSE ReplaceEntity(
             ReplaceEntity(
                 ReplaceEntity(
                     ReplaceEntity(Strip(text), "amp;", "&"),
                     "lt;", "<"),
                 "gt;", ">"),
             "quot;", "\"")

\* dict.get(f, default) on the raw record r
Get(r, f, default) == IF f \in DOMAIN r THEN r[f] ELSE default

\* _extract_clean_comment_data; of the fourteen fields the model keeps the
\* cleaned one and two of those copied with a default
ExtractCleanCommentData(c) ==
    [id |-> Get(c, "id", ""),
     body |-> CleanTextContent(Get(c, "body", <<>>)),
     score |-> Get(c, "score", 0)]

\* _extract_clean_post_data, likewise
ExtractCleanPostData(p) ==
    [id |-> Get(p, "id", ""),
     title |-> CleanTextContent(Get(p, "title", <<>>)),
     selftext |-> CleanTextContent(Get(p, "selftext", <<>>)),
     score |-> Get(p, "score", 0)]

\* raw comment records: with every field, and without a body
RawComments(bodies) ==
    {[id |-> "c1", body |-> b, score |-> 5] : b \in bodies}
    \cup {[id |-> "c1", score |-> 5]}

\* raw post records: with every field, and with the title only
RawPosts ==
    {[id |-> "p1", title |-> t, selftext |-> s, score |-> 5] :
        t \in Texts, s \in {<<>>, <<"&", "amp;", "lt;">>}}
    \cup {[title |-> t] : t \in Sentinels}

\* bodies of the comments in a listing
ListingBodies == {<<>>, <<"[deleted]">>, <<"[removed]">>, <<"hello">>, <<" ">>}

RECURSIVE ListingsOfLen(_)
ListingsOfLen(n) ==
    IF n = 0 THEN {<<>>}
    ELSE {Append(l, c) : l \in ListingsOfLen(n - 1),
                         c \in RawComments(ListingBodies)}

Listings == UNION {ListingsOfLen(n) : n \in 0..MaxListing}

Map(F(_), seq) == [i \in 1..Len(seq) |-> F(seq[i])]

\* RedditCommunity.get_comments on the children of the listing
CommunityKeeps(c) ==
    /\ "body" \in DOMAIN c
    /\ c.body \notin Sentinels \cup {<<>>}
CommunityComments(l) ==
    Map(ExtractCleanCommentData, SelectSeq(l, CommunityKeeps))

\* RedditOfficial.get_comments on submission.comments.list()
OfficialKeeps(c) ==
    /\ "body" \in DOMAIN c
    /\ c.body \notin Sentinels
OfficialCommentData(c) ==
    [id |-> c.id, body |-> c.body, score |-> c.score]
OfficialComments(l) ==
    Map(OfficialCommentData, SelectSeq(l, OfficialKeeps))

\* operations of the scraper that take a limit, and the 'limit' they send
LimitOps ==
    {"get_subreddit_posts", "search_posts", "get_user_posts",
     "get_user_comments", "get_comments"}
LimitArgs == {1, 25, 100, 101, 500}
LimitParam(op, limit) ==
    IF op = "get_subreddit_posts" THEN Min(limit, SubredditPostsLimitCap)
    ELSE limit

\* variables of the functions that were not applied
NoText == <<>>
NoRecord == <<>>
NoPostsData == [kind |-> "None", children |-> <<>>]

NormResult(op, la, lp, ti, ri, ro, ra, li, co) ==
    /\ np_op' = op
    /\ limit_arg' = la
    /\ limit_param' = lp
    /\ text_in' = ti
    /\ text_out' = CleanTextContent(ti)
    /\ text_again' = CleanTextContent(CleanTextContent(ti))
    /\ rec_in' = ri
    /\ rec_out' = ro
    /\ rec_again' = ra
    /\ listing' = li
    /\ comments' = co
    /\ posts_data' = NoPostsData
    /\ results' = <<>>
    /\ UNCHANGED <<comm_vars, off_vars, web_vars>>

\* a behaviour applies one function to one input.
\* _clean_text_content(t), and once more on its result
clean_text_content(t) ==
    /\ np_op = "-"
    /\ NormResult("_clean_text_content", 0, 0, t, NoRecord, NoRecord, NoRecord,
       <<>>, <<>>)

\* _extract_clean_comment_data(c), and once more on its result
extract_clean_comment_data(c) ==
    /\ np_op = "-"
    /\ NormResult("_extract_clean_comment_data", 0, 0, NoText, c,
       ExtractCleanCommentData(c),
       ExtractCleanCommentData(ExtractCleanCommentData(c)),
       <<>>, <<>>)

\* _extract_clean_post_data(p), and once more on its result
extract_clean_post_data(p) ==
    /\ np_op = "-"
    /\ NormResult("_extract_clean_post_data", 0, 0, NoText, p,
       ExtractCleanPostData(p),
       ExtractCleanPostData(ExtractCleanPostData(p)),
       <<>>, <<>>)

\* get_comments of either backend on a delivered listing
get_comments(backend, l) ==
    /\ np_op = "-"
    /\ NormResult(backend, 0, 0, NoText, NoRecord, NoRecord, NoRecord, l,
       IF backend = "RedditCommunity.get_comments"
       THEN CommunityComments(l) ELSE OfficialComments(l))

\* an operation of the scraper builds its query parameters
build_params(op, limit) ==
    /\ np_op = "-"
    /\ NormResult(op, limit, LimitParam(op, limit), NoText, NoRecord, NoRecord,
       NoRecord, <<>>, <<>>)

\* longest listing of posts delivered to a batch operation
MaxPosts == 2

\* the 'data' of the children of a post listing: with an id and without
\* comments, with an id and with comments, and without the 'id' field
RawPostData ==
    { [id |-> "p1", title |-> <<"hello">>, num_comments |-> 0],
      [id |-> "p2", title |-> <<"[deleted]">>, num_comments |-> 2],
      [title |-> <<"hello">>, num_comments |-> 2] }

\* children of a post listing; a child may lack 'data'
PostChildren ==
    {[kind |-> "t3"]} \cup {[kind |-> "t3", data |-> d] : d \in RawPostData}

\* what get_comments hands to the batch operation for one post
CommentAnswers ==
    { [value |-> "None", list |-> <<>>],
      [value |-> "list", list |-> <<>>],
      [value |-> "list", list |-> <<[id |-> "c1", body |-> <<"hello">>, score |-> 5]>>] }

\* a child together with the answer get_comments would give for it
RECURSIVE FetchedChildren(_)
FetchedChildren(n) ==
    IF n = 0 THEN {<<>>}
    ELSE {Append(l, [child |-> c, answer |-> a]) :
             l \in FetchedChildren(n - 1), c \in PostChildren, a \in CommentAnswers}

\* what get_subreddit_posts / search_posts returned: None, or a listing
PostsData ==
    {NoPostsData}
    \cup {[kind |-> "Listing", children |-> l] :
             l \in UNION {FetchedChildren(n) : n \in 0..MaxPosts}}

\* cleaned_post['comments'] = ...
WithComments(cleaned_post, cs) ==
    [f \in DOMAIN cleaned_post \cup {"comments"} |->
        IF f = "comments" THEN cs ELSE cleaned_post[f]]

\* the loop over posts of batch_get_posts_with_comments and of
\* search_and_extract: a child without 'data' is passed over, every other
\* child is cleaned and appended; its comments are fetched when it has
\* comments and an id (and, in search_and_extract, when they are asked for)
RECURSIVE ExtractPosts(_, _)
ExtractPosts(children, include_comments) ==
    IF children = <<>> THEN <<>>
    ELSE LET post == Head(children).child
             answer == Head(children).answer
             rest == ExtractPosts(Tail(children), include_comments)
         IN IF "data" \notin DOMAIN post THEN rest
            ELSE LET post_data == post.data
                     post_id == Get(post_data, "id", "")
                     fetch == /\ include_comments
                              /\ Get(post_data, "num_comments", 0) > 0
                              /\ post_id # ""
                 IN <<WithComments(ExtractCleanPostData(post_data),
                                   IF fetch /\ answer.value # "None"
                                   THEN answer.list ELSE <<>>)>> \o rest

BatchOps == {"batch_get_posts_with_comments", "search_and_extract"}

\* batch_get_posts_with_comments, or search_and_extract with its
\* include_comments argument, on what the post fetch returned
batch_extract(op, pd, include_comments) ==
    /\ np_op = "-"
    /\ op = "batch_get_posts_with_comments" => include_comments
    /\ np_op' = op
    /\ posts_data' = pd
    /\ results' = IF pd.kind = "None" THEN <<>>
                  ELSE ExtractPosts(pd.children, include_comments)
    /\ UNCHANGED <<limit_arg, limit_param, text_in, text_out, text_again,
                   rec_in, rec_out, rec_again, listing, comments>>
    /\ UNCHANGED <<comm_vars, off_vars, web_vars>>

NormFields ==
    /\ np_op = "-"
    /\ limit_arg = 0
    /\ limit_param = 0
    /\ text_in = NoText
    /\ text_out = NoText
    /\ text_again = NoText
    /\ rec_in = NoRecord
    /\ rec_out = NoRecord
    /\ rec_again = NoRecord
    /\ listing = <<>>
    /\ comments = <<>>
    /\ posts_data = NoPostsData
    /\ results = <<>>

NormNext ==
    \/ \E t \in Texts : clean_text_content(t)
    \/ \E c \in RawComments(Texts) : extract_clean_comment_data(c)
    \/ \E p \in RawPosts : extract_clean_post_data(p)
    \/ \E l \in Listings,
          b \in {"RedditCommunity.get_comments", "RedditOfficial.get_comments"} :
          get_comments(b, l)
    \/ \E op \in LimitOps, limit \in LimitArgs : build_params(op, limit)
    \/ \E op \in BatchOps, pd \in PostsData, include_comments \in BOOLEAN :
          batch_extract(op, pd, include_comments)

-----------------------------------------------------------------------------
(* Specifications *)

CommInit ==
    CommFields /\ OffFields(DefaultMaxRequestsPerMinute) /\ WebFields /\ NormFields
SpecCommunity == CommInit /\ [][CommNext]_vars

OffInit ==
    /\ CommFields /\ WebFields /\ NormFields
    /\ \E rpm \in EnvMaxRequestsPerMinute : OffFields(rpm)
SpecOfficial == OffInit /\ [][OffNext]_vars
SpecLimiter == OffInit /\ [][LimNext]_vars
SpecDecorator == OffInit /\ [][DecNext]_vars

------------------------------------------------------------------------
WebInit ==
    /\ CommFields /\ WebFields /\ NormFields
    /\ \E rpm \in WebEnvMaxRequestsPerMinute : OffFields(rpm)
SpecWeb == WebInit /\ [][WebNext]_vars

NormInit == CommFields /\ WebFields /\ NormFields /\ OffFields(DefaultMaxRequestsPerMinute)
SpecNormalise == NormInit /\ [][NormNext]_vars

-----
(* Properties of _make_request *)

IsServerError(r) == r.kind = "http" /\ r.status >= 500
IsRateLimited(r) == r.kind = "http" /\ r.status = 429
IsNotFound(r) == r.kind = "http" /\ r.status = 404

AllOf(seq, P(_)) == seq # <<>> /\ \A i \in 1..Len(seq) : P(seq[i])

\* C1: with max_retries = N, a call whose every attempt is answered with a
\* status >= 500 issues exactly N+1 GETs and then raises APIError; it never
\* returns a value and never issues an (N+2)th attempt.
C1_ServerErrorsExhaustRetries ==
    AllOf(responses, IsServerError) =>
        /\ Len(responses) <= comm_max_retries + 1
        /\ mr_pc = "attempting" => Len(responses) <= comm_max_retries
        /\ mr_pc = "done" =>
              /\ Len(responses) = comm_max_retries + 1
              /\ mr_outcome = Raise("APIError")

C1_Witness ==
    /\ mr_pc = "done"
    /\ AllOf(responses, IsServerError)
    /\ comm_max_retries = 2
    /\ Len(responses) = 3
    /\ mr_outcome = Raise("APIError")

\* C2: a 404 ends the call at once with None: after a 404 no further GET is
\* issued; when the first answer is 404 exactly one GET is issued, there is
\* no sleep besides the request delay, no alternate request and no
\* exception, and get_subreddit_posts returns None.
C2_NotFoundReturnsNoneAtOnce ==
    /\ \A i \in 1..Len(responses) :
          IsNotFound(responses[i]) =>
              /\ i = Len(responses)
              /\ mr_pc = "done"
              /\ mr_outcome = Return("None")
    /\ (responses # <<>> /\ IsNotFound(responses[1])) =>
          /\ Len(responses) = 1
          /\ alt_responses = <<>>
          /\ \A k \in 1..Len(sleeps) : sleeps[k].kind = "request_delay"
          /\ mr_op = "get_subreddit_posts" => op_result = Return("None")

C2_Witness ==
    /\ mr_pc = "done"
    /\ responses # <<>> /\ IsNotFound(responses[1])
    /\ comm_max_retries >= 1
    /\ mr_op = "get_subreddit_posts"
    /\ op_result = Return("None")

-----------------------------------------------------------------------------
(* Properties of the retry loops under rate limiting *)

\* what the vendor library raises when Reddit limits the rate
IsRateLimitSignal(e) ==
    \/ e.cls = "RedditAPIException" /\ e.error_type = "RATELIMIT"
    \/ e.cls = "TooManyRequests"
IsHttp429(e) == e.cls = "TooManyRequests"

IsPayload(r) == r.kind = "http" /\ r.status = 200 /\ ValidateRedditResponse(r.body)

Front(seq) == SubSeq(seq, 1, Len(seq) - 1)
Last(seq) == seq[Len(seq)]

\* C3: when the first k attempts of a call are rate-limited, k smaller than
\* max_retries, the call is not given up, and when the next attempt
\* succeeds the call returns the payload after exactly k+1 attempts; for
\* _make_request and for the decorated operations of the official client.
C3_RateLimitedPrefixThenPayload ==
    /\ (AllOf(responses, IsRateLimited) /\ Len(responses) < comm_max_retries) =>
           mr_pc = "attempting"
    /\ ( /\ mr_pc = "done"
         /\ Len(responses) >= 2
         /\ AllOf(Front(responses), IsRateLimited)
         /\ Len(responses) - 1 < comm_max_retries
         /\ IsPayload(Last(responses)) ) =>
           mr_outcome = Return(Last(responses).body)
    /\ (AllOf(outcomes, IsRateLimitSignal) /\ Len(outcomes) < max_retries) =>
           wr_pc = "attempting"
    /\ ( /\ wr_pc = "done"
         /\ Len(outcomes) >= 2
         /\ AllOf(Front(outcomes), IsRateLimitSignal)
         /\ Len(outcomes) - 1 < max_retries
         /\ Last(outcomes) = VendorOk ) =>
           wr_outcome = Return("payload")

\* C4: a call whose max_retries + 1 attempts were all rate-limited ends with
\* an exception raised to the caller, never with a returned value; for
\* _make_request under HTTP 429 and for the decorated operations.
C4_ExhaustedRateLimitIsFatal ==
    /\ ( /\ mr_pc = "done"
         /\ AllOf(responses, IsRateLimited)
         /\ Len(responses) = comm_max_retries + 1 ) =>
           mr_outcome.kind = "raise"
    /\ ( /\ wr_pc = "done"
         /\ AllOf(outcomes, IsRateLimitSignal)
         /\ Len(outcomes) = max_retries + 1 ) =>
           wr_outcome.kind = "raise"

\* C8: after set_rate_limit_config(max_retries=N, base_delay=B) a decorated
\* operation whose every attempt is answered with HTTP 429 performs exactly
\* N+1 attempts, and the i-th backoff delay is B * 3^(i-1) times the jitter
\* drawn from [1, 2].
C8_ConfiguredRetryPolicyGoverns ==
    (config_log.retry_set /\ AllOf(outcomes, IsHttp429)) =>
        /\ Len(outcomes) <= max_retries + 1
        /\ wr_pc = "done" => Len(outcomes) = max_retries + 1
        /\ \A i \in 1..Len(wr_sleeps) :
              /\ wr_sleeps[i].ms >= base_delay * Pow(3, i - 1)
              /\ wr_sleeps[i].ms <= base_delay * Pow(3, i - 1) * 2

-----------------------------------------------------------------------------
(* Properties of _enforce_rate_limit *)

\* requests let through in the 60 s that end with the i-th one
TrailingWindow(i) ==
    {k \in 1..i : passed[i] - passed[k] < BurstWindow}

\* C5: in every trailing 60-second interval at most max_requests_per_minute
\* requests passed _enforce_rate_limit, whatever the calls and their timing.
C5_TrailingWindowCapped ==
    \A i \in 1..Len(passed) :
        Cardinality(TrailingWindow(i)) <= max_requests_per_minute

\* C6: when the pruned history holds max_requests_per_minute timestamps at
\* the start of a call, the request is let through no earlier than
\* 60 s - (now - oldest timestamp) after the call started.
C6_BurstWaitCoversWindow ==
    (erl.burst_protection /\ erl.recorded # 0 /\ erl.in_window >= erl.cap) =>
        erl.recorded - erl.start >= BurstWindow - (erl.start - erl.oldest)

C6_Witness ==
    /\ erl.burst_protection
    /\ erl.recorded # 0
    /\ erl.in_window >= erl.cap
    /\ erl.start - erl.oldest >= 50 * 1000
    /\ erl.recorded - erl.start >= BurstWindow - (erl.start - erl.oldest)

-----------------------------------------------------------------------------
(* Properties of the stealth switches *)

\* C9: right after enable_stealth_mode max_requests_per_minute is at most 20
\* and request_delay times any jitter that can be drawn is at least 1.0 s.
C9_StealthFloors ==
    config_log.last = "enable_stealth_mode" =>
        /\ max_requests_per_minute <= 20
        /\ \A j \in JitterDraws : DelayWithJitter(j) >= 1000

\* C10: right after disable_stealth_mode request_delay is 0.1 s and
\* max_requests_per_minute is 60, and on a default-constructed client that
\* only went through enable_stealth_mode these are the values it had before
\* stealth was enabled.
C10_DisableRestoresDefaults ==
    config_log.last = "disable_stealth_mode" =>
        /\ request_delay = 100
        /\ max_requests_per_minute = 60
        /\ (config_log.env_default /\ config_log.calls = "enable_disable") =>
              /\ request_delay = config_log.before_request_delay
              /\ max_requests_per_minute =
                     config_log.before_max_requests_per_minute

-----------------------------------------------------------------------------
(* Properties of the web wrapper *)

\* C7: at most one job thread at a time is inside an operation of the
\* shared adapter.
C7_OneThreadInAdapter ==
    Cardinality({h \in Handlers : thread[h].pc \in InAdapter}) <= 1

-----------------------------------------------------------------------------
(* Properties of the 403 fallback and of payload validation *)

IsForbidden(r) == r.kind = "http" /\ r.status = 403

\* what a caller is owed from the alternate answer a: its parsed body when
\* the answer is a 200 with a non-empty body, None otherwise
AlternateOwed(a) ==
    IF a.kind = "http" /\ a.status = 200 /\ a.body # "empty"
    THEN Return(IF a.body = "not_json" THEN "html_content" ELSE a.body)
    ELSE Return("None")

\* C11: a 403 ends the call with no further primary attempt; on attempt 0
\* exactly one alternate request is issued and the call returns its result
\* when it succeeded and None otherwise; on a later attempt no alternate
\* request is issued and the call returns None; a call never issues more
\* than one alternate request.
C11_ForbiddenFallsBackOnce ==
    /\ Len(alt_responses) <= 1
    /\ \A i \in 1..Len(responses) :
          IsForbidden(responses[i]) =>
              /\ i = Len(responses)
              /\ mr_pc = "done"
              /\ i = 1 => /\ Len(alt_responses) = 1
                          /\ mr_outcome = AlternateOwed(alt_responses[1])
              /\ i > 1 => /\ alt_responses = <<>>
                          /\ mr_outcome = Return("None")

C11_Witness ==
    /\ mr_pc = "done"
    /\ Len(responses) = 2
    /\ IsRateLimited(responses[1])
    /\ IsForbidden(responses[2])
    /\ alt_responses = <<>>
    /\ mr_outcome = Return("None")

\* does the returned value v pass _validate_reddit_response; the wrapper
\* {'html_content': ...} is a dict that contains 'html_content'
PassesValidation(v) == v = "html_content" \/ ValidateRedditResponse(v)

\* C12: every value other than None that _make_request returns passes
\* _validate_reddit_response, whichever path returned it.
C12_ReturnedValuesAreValidated ==
    (mr_pc = "done" /\ mr_outcome.kind = "return" /\ mr_outcome.value # "None") =>
        PassesValidation(mr_outcome.value)

\* a 200 answer whose JSON body fails _validate_reddit_response
IsInvalidPayload(r) ==
    /\ r.kind = "http" /\ r.status = 200
    /\ r.body # "not_json"
    /\ ~ValidateRedditResponse(r.body)

\* C13: an answer whose payload fails validation on an attempt with retries
\* remaining does not end the call: another attempt follows.
C13_InvalidPayloadIsRetried ==
    \A i \in 1..Len(responses) :
        (IsInvalidPayload(responses[i]) /\ i - 1 < comm_max_retries) =>
            (i < Len(responses) \/ mr_pc = "attempting")

-----------------------------------------------------------------------------
(* Properties of the public operations of the scraper *)

\* what the operation op hands to its caller when the resource does not
\* exist
NotFoundResult(op) ==
    IF op = "get_comments" THEN Return("empty_list") ELSE Return("None")

\* C14: for every public operation, a 404 gives a null or empty result and
\* never an exception, and a fetch that failed after exhausting its retries
\* gives the caller something else than that.
C14_NotFoundDiffersFromFailure ==
    /\ (mr_pc = "done" /\ IsNotFound(Last(responses))) =>
           op_result = NotFoundResult(mr_op)
    /\ (mr_pc = "done" /\ mr_outcome = Raise("APIError")) =>
           op_result # NotFoundResult(mr_op)

-----------------------------------------------------------------------------
(* Properties of the decorated operations under vendor exceptions *)

\* a praw RedditAPIException that carries a rate-limit item
IsVendorRateLimit(e) ==
    /\ e.cls = "RedditAPIException"
    /\ e.error_type \in {"RATELIMIT", "TOO_MANY_REQUESTS"}

\* C15: a call whose vendor calls raise rate-limit RedditAPIExceptions is
\* retried: it ends only after the decorator's max_retries + 1 attempts,
\* then with RateLimitError, and the i-th delay is the decorator's
\* base_delay * 2^(i-1) times a jitter in [0.5, 1.5]; the first occurrence
\* never reaches the caller.
C15_VendorRateLimitIsRetried ==
    AllOf(outcomes, IsVendorRateLimit) =>
        /\ wr_pc = "done" =>
              /\ Len(outcomes) = DecoratorMaxRetries + 1
              /\ wr_outcome = Raise("RateLimitError")
        /\ Len(wr_sleeps) = Min(Len(outcomes), DecoratorMaxRetries)
        /\ \A i \in 1..Len(wr_sleeps) :
              /\ 2 * wr_sleeps[i].ms >= DecoratorBaseDelay * Pow(2, i - 1)
              /\ 2 * wr_sleeps[i].ms <= 3 * DecoratorBaseDelay * Pow(2, i - 1)

IsTransportFailure(r) == IsServerError(r) \/ r.kind = "exception"

\* prawcore's ServerError ("received 500 HTTP response") or a network error
IsVendorTransient(e) == e.cls = "ServerError"

\* C16: a 5xx answer or a network exception on an attempt with retries
\* remaining does not end the call, in _make_request and in the decorated
\* operations of the official client alike.
C16_TransientErrorsAreRetried ==
    /\ \A i \in 1..Len(responses) :
          (IsTransportFailure(responses[i]) /\ i - 1 < comm_max_retries) =>
              (i < Len(responses) \/ mr_pc = "attempting")
    /\ \A i \in 1..Len(outcomes) :
          (IsVendorTransient(outcomes[i]) /\ i - 1 < DecoratorMaxRetries) =>
              (i < Len(outcomes) \/ wr_pc = "attempting")

-----------------------------------------------------------------------------
(* Properties of the limiter's bookkeeping *)

\* C17: once an attempt has gone through _enforce_rate_limit, its timestamp
\* is the newest entry of _request_times and the value of
\* _last_request_time, whether the vendor call then succeeded or raised and
\* whatever configuration operations were applied before.
C17_EveryAttemptIsRecorded ==
    erl.recorded # 0 =>
        /\ last_request_time = erl.recorded
        /\ request_times # <<>>
        /\ Last(request_times) = erl.recorded

-----------------------------------------------------------------------------
(* Properties of the data functions *)

\* C18: every operation of the scraper that takes a limit sends a 'limit'
\* query parameter of at most 100, whatever limit its caller passed.
C18_LimitParameterCapped ==
    np_op \in LimitOps => limit_param <= 100

ListedComment(b) == [id |-> "c1", body |-> b, score |-> 5]

\* C19: no comment returned by get_comments, of either backend, has the
\* body '[deleted]', '[removed]' or ''; the listing with the bodies
\* '[deleted]', '[removed]', '' and 'hello' yields exactly one comment, with
\* the body 'hello'.
C19_NoSentinelBodiesReturned ==
    np_op \in {"RedditCommunity.get_comments", "RedditOfficial.get_comments"} =>
        /\ \A i \in 1..Len(comments) :
              comments[i].body \notin {<<"[deleted]">>, <<"[removed]">>, <<>>}
        /\ listing = <<ListedComment(<<"[deleted]">>), ListedComment(<<"[removed]">>),
                       ListedComment(<<>>), ListedComment(<<"hello">>)>> =>
              /\ Len(comments) = 1
              /\ comments[1].body = <<"hello">>

\* C20: _clean_text_content, _extract_clean_comment_data and
\* _extract_clean_post_data applied to their own result give that result
\* again: the same fields with the same values.
C20_NormalisationIdempotent ==
    /\ np_op = "_clean_text_content" => text_again = text_out
    /\ np_op \in {"_extract_clean_comment_data", "_extract_clean_post_data"} =>
          /\ DOMAIN rec_again = DOMAIN rec_out
          /\ rec_again = rec_out

-----------------------------------------------------------------------------
(* Properties of the batch operations *)

\* does the child of a post listing carry a post with an 'id'
HasPostId(c) ==
    /\ "data" \in DOMAIN c.child
    /\ "id" \in DOMAIN c.child.data

\* C21: a post record without the 'id' field is left out of what
\* batch_get_posts_with_comments and search_and_extract return, and the
\* other records of the listing are all returned, in order: the result
\* holds exactly the posts of the listing that have an id.
C21_PostsWithoutIdAreSkipped ==
    (np_op \in BatchOps /\ posts_data.kind = "Listing") =>
        LET kept == SelectSeq(posts_data.children, HasPostId)
        IN /\ Len(results) = Len(kept)
           /\ \A i \in 1..Len(results) : results[i].id # ""
           /\ \A i \in 1..Min(Len(results), Len(kept)) :
                 results[i].id = kept[i].child.data.id

-----------------------------------------------------------------------------
(* Properties of authenticate *)

\* C22: authenticate raises AuthenticationError whenever the client
\* credentials are missing, the username/password login fails or the
\* connection test fails, and it returns True only when none of them failed.
C22_AuthFailureIsFatal ==
    "login" \in DOMAIN auth_outcome =>
        LET failed == \/ ~auth_outcome.has_credentials
                      \/ auth_outcome.login = "failed"
                      \/ ~auth_outcome.test_ok
        IN /\ failed => /\ auth_outcome.kind = "raise"
                        /\ auth_outcome.value = "AuthenticationError"
           /\ auth_outcome.kind = "return" => ~failed

-----------------------------------------------------------------------------
(* Properties of the attempt budget of _make_request *)

\* C23: a call issues at most max_retries + 1 primary GETs and at most one
\* alternate GET and is over once the last of them is answered; every
\* answer, whether a 429, a 5xx or a transport error, uses up one attempt of
\* the same budget; and each step adds to request_count exactly the number
\* of primary GETs it issued.
C23_AttemptBudget ==
    /\ [](/\ Len(responses) <= comm_max_retries + 1
          /\ Len(alt_responses) <= 1
          /\ mr_pc = "attempting" => attempt = Len(responses)
          /\ mr_pc = "done" => attempt + 1 = Len(responses)
          /\ Len(responses) = comm_max_retries + 1 => mr_pc = "done")
    /\ [][IF Len(responses') > Len(responses)
          THEN request_count' = request_count + Len(responses') - Len(responses)
          ELSE request_count' = request_count]_vars

C23_Witness ==
    /\ mr_pc = "done"
    /\ comm_max_retries = 3
    /\ Len(responses) = 4
    /\ IsRateLimited(responses[1])
    /\ IsServerError(responses[2])
    /\ responses[3].kind = "exception"
    /\ request_count = 4

-----------------------------------------------------------------------------
(* Properties of the delays of the retry loops *)

\* position in `sleeps` of the request delay of the i-th primary GET
RequestDelayAt(i) ==
    CHOOSE k \in 1..Len(sleeps) :
        /\ sleeps[k].kind = "request_delay"
        /\ Cardinality({j \in 1..k : sleeps[j].kind = "request_delay"}) = i

\* was a sleep made after the answer to the i-th primary GET, and how long
SleptAfter(i) ==
    /\ RequestDelayAt(i) < Len(sleeps)
    /\ sleeps[RequestDelayAt(i) + 1].kind # "request_delay"
DelayAfter(i) == sleeps[RequestDelayAt(i) + 1].ms

IsHeaderless429(r) == IsRateLimited(r) /\ r.retry_after = "absent"

\* C24: after a 429 with a Retry-After header the client sleeps the value
\* of the header; 429 answers without the header, within one call, are
\* followed by delays that grow from one to the next, in _make_request and
\* in the decorated operations of the official client.
C24_RateLimitDelayGrows ==
    /\ \A i \in 1..Len(responses) :
          (IsRateLimited(responses[i]) /\ responses[i].retry_after = "seconds"
              /\ SleptAfter(i)) =>
              DelayAfter(i) = 1000 * RetryAfterSeconds
    /\ \A i, k \in 1..Len(responses) :
          (i < k /\ IsHeaderless429(responses[i]) /\ IsHeaderless429(responses[k])
              /\ SleptAfter(k)) =>
              DelayAfter(i) < DelayAfter(k)
    /\ \A i, k \in 1..Len(wr_sleeps) :
          (i < k /\ IsHttp429(outcomes[i]) /\ IsHttp429(outcomes[k])) =>
              wr_sleeps[i].ms < wr_sleeps[k].ms

\* C25: within one call the delay slept before a retry is at least the
\* delay slept before the previous retry on the same path, whatever jitter
\* is drawn: on the rate-limit path and on the bot-detection path of
\* handle_rate_limit, and on the 5xx / transport-error path of
\* _make_request.
C25_BackoffGrows ==
    /\ \A i, k \in 1..Len(wr_sleeps) :
          (i < k /\ wr_sleeps[i].kind = wr_sleeps[k].kind) =>
              wr_sleeps[i].ms <= wr_sleeps[k].ms
    /\ \A i, k \in 1..Len(sleeps) :
          (i < k /\ sleeps[i].kind = "backoff" /\ sleeps[k].kind = "backoff") =>
              sleeps[i].ms <= sleeps[k].ms

-----------------------------------------------------------------------------
(* Properties of the inter-request delay *)

\* the smallest delay_with_jitter the current configuration can draw
MinDelayWithJitter ==
    IF use_random_delays THEN (request_delay * min_jitter) \div 1000
    ELSE request_delay

\* C26: when _enforce_rate_limit has returned, the time since the previous
\* request's _last_request_time is at least the delay_with_jitter of the
\* call, which is at least request_delay * min_jitter (request_delay
\* without random delays); so are two consecutive requests of a client
\* used by one caller.
C26_MinimumSpacing ==
    (wr_pc = "done" /\ Last(outcomes) = VendorOk) =>
        /\ erl.recorded = Last(passed)
        /\ erl.recorded - erl.prev_last >= erl.delay_with_jitter
        /\ erl.delay_with_jitter >= MinDelayWithJitter
        /\ Len(passed) >= 2 =>
              /\ erl.prev_last = passed[Len(passed) - 1]
              /\ Last(passed) - passed[Len(passed) - 1] >= MinDelayWithJitter

C26_Witness ==
    /\ wr_pc = "done" /\ Last(outcomes) = VendorOk
    /\ Len(passed) >= 2
    /\ use_random_delays
    /\ erl.start - erl.prev_last < erl.delay_with_jitter
    /\ Last(passed) - passed[Len(passed) - 1] = MinDelayWithJitter

\* C27: a call whose last attempt, attempt number max_retries, failed with
\* a 429, a 5xx or a transport error (_make_request) or with a rate-limit
\* failure (handle_rate_limit) returns or raises without a backoff or
\* rate-limit sleep after that attempt.
C27_NoSleepAfterFinalAttempt ==
    /\ ( /\ mr_pc = "done"
         /\ Len(responses) = comm_max_retries + 1
         /\ \/ IsRateLimited(Last(responses))
            \/ IsTransportFailure(Last(responses)) ) =>
           ~SleptAfter(Len(responses))
    /\ ( /\ wr_pc = "done"
         /\ Len(outcomes) = DecoratorMaxRetries + 1
         /\ WrapperBranch(OperationRaises(Last(outcomes)))
               \in {"rate_limit", "bot_detection"} ) =>
           Len(wr_sleeps) = DecoratorMaxRetries

-----------------------------------------------------------------------------
(* Properties of get_anti_bot_status *)

\* C28: whenever get_anti_bot_status reports stealth_mode, request_delay is
\* at least 1.0 s, max_requests_per_minute is at most 20 and the jitter
\* range is 0.5 to 2.0, from construction on and after any configuration
\* operations.
C28_StealthStatusMeansStealthConfig ==
    get_anti_bot_status.stealth_mode =>
        /\ get_anti_bot_status.request_delay >= 1000
        /\ get_anti_bot_status.max_requests_per_minute <= 20
        /\ get_anti_bot_status.jitter_range = <<500, 2000>>

-----------------------------------------------------------------------------
(* Properties of the job table *)

\* C29: no two jobs started by start_collection_job get the same job_id,
\* whatever the interleaving of the requests; the entry of a job that is
\* still running says "running", and the entry of a finished job says
\* "completed" or "failed".
C29_JobIdsUnique ==
    /\ \A h1, h2 \in Handlers :
          (h1 # h2 /\ handler[h1].pc = "returned" /\ handler[h2].pc = "returned") =>
              handler[h1].job_id # handler[h2].job_id
    /\ \A h \in Handlers :
          /\ thread[h].pc \notin {"none", "finished"} =>
                active_jobs[thread[h].job_id] = "running"
          /\ thread[h].pc = "finished" =>
                active_jobs[thread[h].job_id] \in {"completed", "failed"}

-----------------------------------------------------------------------------
(* Properties of _try_alternate_request *)

\* C30: a step in which _try_alternate_request is called leaves the
\* session's headers as they were before it, whether the alternate GET was
\* answered with 200, with another status, or raised.
C30_AlternateKeepsHeaders ==
    [][Len(alt_responses') > Len(alt_responses) =>
          session_headers' = session_headers]_vars

====
